---------------------------- MODULE Spec2Model ----------------------------
(***************************************************************************)
(* Model of the PDF flash-card server (src/index.js): one process-wide     *)
(* vectorStore slot, the /upload pipeline, the three structured query      *)
(* routes (/flashcards, /summarize, /mcq) and requests to /chat.           *)
(*                                                                         *)
(* Every handler is cut at its awaits: one action per run-to-completion    *)
(* segment of JavaScript, so actions of different requests interleave      *)
(* exactly where the event loop can interleave them.                       *)
(***************************************************************************)
EXTENDS Integers, Sequences, FiniteSets, TLC

(***************************************************************************)
(* Bounds of the model.                                                    *)
(***************************************************************************)
NumUploads == 2
NumQueries == 2
MaxRawLen == 4
MaxTextLen == 4
MaxElems == 2

(***************************************************************************)
(* JavaScript values.  A value is a record tagged by t; strings carry      *)
(* their characters as a sequence, objects a function from keys to values, *)
(* arrays a sequence of values.                                            *)
(***************************************************************************)
Undefined == [t |-> "undef"]
JsNull == [t |-> "null"]
Str(cs) == [t |-> "str", v |-> cs]
Num(n) == [t |-> "num", v |-> n]
Bool(b) == [t |-> "bool", v |-> b]
Arr(xs) == [t |-> "arr", v |-> xs]
Obj(f) == [t |-> "obj", v |-> f]

\* ToBoolean, as applied by `!x` and `if (x)`.
Truthy(x) ==
  CASE x.t = "undef" -> FALSE
    [] x.t = "null" -> FALSE
    [] x.t = "bool" -> x.v
    [] x.t = "num" -> x.v # 0
    [] x.t = "str" -> x.v # <<>>
    [] OTHER -> TRUE

\* typeof x
TypeOf(x) ==
  CASE x.t = "undef" -> "undefined"
    [] x.t = "null" -> "object"
    [] x.t = "bool" -> "boolean"
    [] x.t = "num" -> "number"
    [] x.t = "str" -> "string"
    [] OTHER -> "object"

\* x.key throws a TypeError when x is null or undefined.
GetThrows(x) == x.t \in {"undef", "null"}

\* x.key for the keys the handlers read (none of them is an array index or
\* "length"): an own property of an object, undefined on anything else.
Get(x, key) ==
  IF x.t = "obj" /\ key \in DOMAIN x.v THEN x.v[key] ELSE Undefined

\* The decimal name of an array index.
IndexKey(i) == <<"0", "1", "2", "3", "4", "5", "6", "7", "8", "9">>[i + 1]

\* Object.keys(x) for a non-null x: own enumerable string keys.
ObjectKeys(x) ==
  CASE x.t = "obj" -> DOMAIN x.v
    [] x.t \in {"arr", "str"} -> {IndexKey(i - 1) : i \in 1..Len(x.v)}
    [] OTHER -> {}

(***************************************************************************)
(* Text cleaning of /upload: data.text.replace(/\s+/g, ' ').trim()         *)
(***************************************************************************)
\* Characters of the extracted text: a letter and three members of the
\* class \s (space, line feed, no-break space).
Letters == {"a"}
WhiteSpace == {" ", "\n", "nbsp"}
Chars == Letters \cup WhiteSpace

IsSpace(c) == c \in WhiteSpace

RECURSIVE CollapseFrom(_, _)
\* Scan s from position i; a maximal run of \s becomes one ' '.
CollapseFrom(s, i) ==
  IF i > Len(s) THEN <<>>
  ELSE IF IsSpace(s[i])
    THEN IF i > 1 /\ IsSpace(s[i - 1])
           THEN CollapseFrom(s, i + 1)
           ELSE <<" ">> \o CollapseFrom(s, i + 1)
    ELSE <<s[i]>> \o CollapseFrom(s, i + 1)

\* Every white-space character replaced on its own (the regex without `+`).
ReplaceEachSpace(s) == [i \in 1..Len(s) |-> IF IsSpace(s[i]) THEN " " ELSE s[i]]

\* s.replace(/\s+/g, ' ')
ReplaceSpaceRuns(s) == CollapseFrom(s, 1)

RECURSIVE TrimStart(_)
TrimStart(s) ==
  IF s # <<>> /\ IsSpace(Head(s)) THEN TrimStart(Tail(s)) ELSE s

RECURSIVE TrimEnd(_)
TrimEnd(s) ==
  IF s # <<>> /\ IsSpace(s[Len(s)]) THEN TrimEnd(SubSeq(s, 1, Len(s) - 1)) ELSE s

\* s.trim()
Trim(s) == TrimEnd(TrimStart(s))

\* cleanText of line 66.
CleanText(s) == Trim(ReplaceSpaceRuns(s))

(***************************************************************************)
(* Model text and JSON.parse.  The text of the model's answer is a         *)
(* sequence of tokens: '[' , ']' , ',' , a run of prose that is no JSON,   *)
(* or the literal of a JSON value that is not an array (a scalar or an     *)
(* object).  White space between tokens is not represented.  Value tokens  *)
(* that hold arrays inside an object stand only between the outermost      *)
(* brackets of a text, where their own brackets are neither the first '['  *)
(* nor the last ']'.                                                       *)
(***************************************************************************)
LB == [t |-> "lb"]
RB == [t |-> "rb"]
Comma == [t |-> "comma"]
Prose == [t |-> "prose"]

IsValueToken(tok) == tok.t \in {"str", "num", "bool", "null", "obj"}

\* text.indexOf('['), 0-based, -1 when absent.
IndexOfLB(text) ==
  IF \E i \in 1..Len(text) : text[i] = LB
    THEN (CHOOSE i \in 1..Len(text) :
            text[i] = LB /\ \A j \in 1..(i - 1) : text[j] # LB) - 1
    ELSE -1

\* text.lastIndexOf(']'), 0-based, -1 when absent.
LastIndexOfRB(text) ==
  IF \E i \in 1..Len(text) : text[i] = RB
    THEN (CHOOSE i \in 1..Len(text) :
            text[i] = RB /\ \A j \in (i + 1)..Len(text) : text[j] # RB) - 1
    ELSE -1

\* text.slice(from, to): a negative index counts from the end, both are
\* clamped to [0, length], and the result is empty when from >= to.
Slice(text, from, to) ==
  LET n == Len(text)
      clamp(k) == IF k < 0 THEN (IF n + k < 0 THEN 0 ELSE n + k)
                  ELSE IF k > n THEN n ELSE k
  IN SubSeq(text, clamp(from) + 1, clamp(to))

\* jsonString of lines 136-138, 201-203 and 278-280.
JsonString(text) == Slice(text, IndexOfLB(text), LastIndexOfRB(text) + 1)

ParseFail == [ok |-> FALSE]

RECURSIVE ParseValue(_, _)
RECURSIVE ParseElements(_, _, _)
\* One JSON value starting at token i: [ok, val, next].
ParseValue(s, i) ==
  IF i > Len(s) THEN ParseFail
  ELSE IF s[i] = LB
    THEN IF i + 1 <= Len(s) /\ s[i + 1] = RB
           THEN [ok |-> TRUE, val |-> Arr(<<>>), next |-> i + 2]
           ELSE ParseElements(s, i + 1, <<>>)
  ELSE IF IsValueToken(s[i])
    THEN [ok |-> TRUE, val |-> s[i], next |-> i + 1]
  ELSE ParseFail

\* The elements of an array from token i on, acc holding those read so far.
ParseElements(s, i, acc) ==
  LET e == ParseValue(s, i) IN
  IF ~e.ok THEN ParseFail
  ELSE IF e.next > Len(s) THEN ParseFail
  ELSE IF s[e.next] = RB
    THEN [ok |-> TRUE, val |-> Arr(Append(acc, e.val)), next |-> e.next + 1]
  ELSE IF s[e.next] = Comma
    THEN ParseElements(s, e.next + 1, Append(acc, e.val))
  ELSE ParseFail

\* A parser that reads the empty input as an empty array.
JsonParseEmptyIsArray(s) ==
  LET r == ParseValue(s, 1) IN
  IF s = <<>> THEN [ok |-> TRUE, val |-> Arr(<<>>)]
  ELSE IF r.ok /\ r.next = Len(s) + 1 THEN [ok |-> TRUE, val |-> r.val]
  ELSE ParseFail

\* JSON.parse(s): the whole input must be one value; anything else throws.
JsonParse(s) ==
  LET r == ParseValue(s, 1) IN
  IF r.ok /\ r.next = Len(s) + 1 THEN [ok |-> TRUE, val |-> r.val] ELSE ParseFail

(***************************************************************************)
(* Shape validation of the three structured routes.                        *)
(***************************************************************************)
AnswerLetters == {<<"A">>, <<"B">>, <<"C">>, <<"D">>}
OptionKeys == {"A", "B", "C", "D"}

\* Lines 147-151: the forEach callback does not throw on this card.
CardAccepted(card) ==
  /\ ~GetThrows(card)
  /\ Truthy(Get(card, "question"))
  /\ Truthy(Get(card, "answer"))

\* Lines 212-216.
PointAccepted(point) == TypeOf(point) = "string"

\* ['A','B','C','D'].includes(x): SameValueZero against four strings.
IsAnswerLetter(x) == x.t = "str" /\ x.v \in AnswerLetters

\* The option check with the length test dropped.
OptionsAcceptedNoLength(options) ==
  \A key \in ObjectKeys(options) : key \in OptionKeys

\* Line 297: four own keys, every one of them among A, B, C, D.
OptionsAccepted(options) ==
  /\ Cardinality(ObjectKeys(options)) = 4
  /\ \A key \in ObjectKeys(options) : key \in OptionKeys

\* Lines 289-300: the forEach callback does not throw on this element.
McqAccepted(mcq) ==
  /\ ~GetThrows(mcq)
  /\ Truthy(Get(mcq, "question"))
  /\ Truthy(Get(mcq, "options"))
  /\ Truthy(Get(mcq, "correct_answer"))
  /\ IsAnswerLetter(Get(mcq, "correct_answer"))
  /\ OptionsAccepted(Get(mcq, "options"))

Routes == {"/flashcards", "/summarize", "/mcq"}

ElementAccepted(route, e) ==
  CASE route = "/flashcards" -> CardAccepted(e)
    [] route = "/summarize" -> PointAccepted(e)
    [] route = "/mcq" -> McqAccepted(e)

\* The parse block of a route (lines 134-155, 199-220, 276-304) on the text
\* of the model's answer: [ok |-> TRUE, val |-> the array] when nothing is
\* thrown, [ok |-> FALSE] when anything is.
ParseBlock(route, text) ==
  LET parsed == JsonParse(JsonString(text)) IN
  IF ~parsed.ok THEN ParseFail
  ELSE IF parsed.val.t # "arr" THEN ParseFail
  ELSE IF \A i \in 1..Len(parsed.val.v) : ElementAccepted(route, parsed.val.v[i])
    THEN [ok |-> TRUE, val |-> parsed.val]
  ELSE ParseFail

(***************************************************************************)
(* State.                                                                  *)
(***************************************************************************)
VARIABLES
  vectorStore,  \* line 39: null, or the store installed by the last build
  upl,          \* the /upload requests, numbered in order of arrival
  qry,          \* the requests to the query routes and to /chat, likewise
  buildOrder    \* history: the uploads in the order their builds resolved

vars == <<vectorStore, upl, qry, buildOrder>>

UploadIds == 1..NumUploads
QueryIds == 1..NumQueries

\* fileSize of the multer limits, in bytes.
FileSizeLimit == 10 * 1024 * 1024

\* A MemoryVectorStore: which upload built it, and from which documents.
Store(u, docs) == [t |-> "obj", by |-> u, docs |-> docs]

\* What a client can put in the multipart field 'pdf'.
NoFile == [present |-> FALSE, mimetype |-> "", size |-> 0]
PdfFile == [present |-> TRUE, mimetype |-> "application/pdf", size |-> 1]
TextFile == [present |-> TRUE, mimetype |-> "text/plain", size |-> 1]
BigPdfFile ==
  [present |-> TRUE, mimetype |-> "application/pdf", size |-> FileSizeLimit + 1]
Files == {NoFile, PdfFile, TextFile, BigPdfFile}

NewUpload ==
  [pc |-> "new", file |-> NoFile, data |-> Undefined, clean |-> <<>>,
   docs |-> <<>>, status |-> 0, error |-> ""]

NewQuery ==
  [pc |-> "new", route |-> "", retriever |-> JsNull, used |-> JsNull,
   text |-> <<>>, status |-> 0, body |-> JsNull, called |-> FALSE,
   loadedAtStart |-> FALSE, storeAtStart |-> JsNull]

Init ==
  /\ vectorStore = JsNull
  /\ upl = [u \in UploadIds |-> NewUpload]
  /\ qry = [q \in QueryIds |-> NewQuery]
  /\ buildOrder = <<>>

\* Requests are numbered as they arrive.
NextUpload(u) ==
  upl[u].pc = "new" /\ (IF u = 1 THEN TRUE ELSE upl[u - 1].pc # "new")
NextQuery(q) ==
  qry[q].pc = "new" /\ (IF q = 1 THEN TRUE ELSE qry[q - 1].pc # "new")

(***************************************************************************)
(* POST /upload, lines 42-95.                                              *)
(***************************************************************************)
\* The catch block that resets the slot as well as answering 500.
StoreAfterCatchReset == JsNull

\* Lines 92-94: the catch block answers and assigns nothing.
StoreAfterCatch == vectorStore

\* An error thrown in the handler of upload r (a record of upl) is caught:
\* res.status(500).json({error: error.message}).
UploadCaught(u, r, message) ==
  /\ upl' = [upl EXCEPT ![u] = [r EXCEPT !.pc = "done", !.status = 500,
                                         !.error = message]]
  /\ vectorStore' = StoreAfterCatch
  /\ UNCHANGED buildOrder

\* Lines 17-22 and 42: multer passes a file over the limit to next(err) as a
\* MulterError, which carries no status; no error middleware is registered,
\* so Express's default handler answers with err.status || 500.
OversizeStatus == 500

\* The request arrives: multer, then lines 43-52 up to the await of pdf().
UploadReceive(u, files) ==
  /\ NextUpload(u)
  /\ \E f \in files :
       IF f.present /\ f.size > FileSizeLimit
         THEN /\ upl' = [upl EXCEPT ![u].pc = "done", ![u].file = f,
                                    ![u].status = OversizeStatus,
                                    ![u].error = "File too large"]
              /\ UNCHANGED <<vectorStore, buildOrder>>
       ELSE IF ~f.present
         THEN /\ upl' = [upl EXCEPT ![u].pc = "done", ![u].file = f,
                                    ![u].status = 400,
                                    ![u].error = "No PDF file uploaded"]
              /\ UNCHANGED <<vectorStore, buildOrder>>
       ELSE IF f.mimetype # "application/pdf"
         THEN /\ upl' = [upl EXCEPT ![u].pc = "done", ![u].file = f,
                                    ![u].status = 400,
                                    ![u].error = "File must be a PDF"]
              /\ UNCHANGED <<vectorStore, buildOrder>>
       ELSE /\ upl' = [upl EXCEPT ![u].pc = "pdf", ![u].file = f]
            /\ UNCHANGED <<vectorStore, buildOrder>>
  /\ UNCHANGED qry

\* The mark of a pdf() promise that was rejected.
Rejected == [t |-> "rejected"]

\* Lines 52-81: pdf() settles; validation and cleaning run up to the await
\* of createDocuments.
PdfDone(u, datas) ==
  /\ upl[u].pc = "pdf"
  /\ \/ UploadCaught(u, [upl[u] EXCEPT !.data = Rejected], "pdf-parse error")
     \/ \E data \in datas :
          LET r == [upl[u] EXCEPT !.data = data] IN
          IF ~Truthy(data) \/ TypeOf(data) # "object"
            THEN UploadCaught(u, r, "Invalid PDF data received")
          ELSE IF ~Truthy(Get(data, "text")) \/ TypeOf(Get(data, "text")) # "string"
            THEN UploadCaught(u, r, "Failed to extract text from PDF")
          ELSE IF ~Truthy(Str(CleanText(Get(data, "text").v)))
            THEN UploadCaught(u, r, "Failed to process PDF text")
          ELSE /\ upl' = [upl EXCEPT ![u] =
                           [r EXCEPT !.pc = "split",
                                     !.clean = CleanText(Get(data, "text").v)]]
               /\ UNCHANGED <<vectorStore, buildOrder>>
  /\ UNCHANGED qry

\* Line 81: createDocuments([cleanText]) settles.  The splitter is a
\* library; a text below its chunk size comes back as one document.
SplitDone(u) ==
  /\ upl[u].pc = "split"
  /\ \/ UploadCaught(u, upl[u], "splitter error")
     \/ /\ upl' = [upl EXCEPT ![u].pc = "embed", ![u].docs = <<upl[u].clean>>]
        /\ UNCHANGED <<vectorStore, buildOrder>>
  /\ UNCHANGED qry

\* A slot that keeps the store of the later-received upload.
InstalledNewestRequest(u) ==
  IF vectorStore # JsNull /\ vectorStore.by > u
    THEN vectorStore
    ELSE Store(u, upl[u].docs)

\* Line 84: the value assigned to vectorStore when the build resolves.
Installed(u) == Store(u, upl[u].docs)

\* Lines 84-91: MemoryVectorStore.fromDocuments settles; on success the
\* slot is assigned and the request answered 200.
EmbedDone(u) ==
  /\ upl[u].pc = "embed"
  /\ \/ UploadCaught(u, upl[u], "embedding error")
     \/ /\ vectorStore' = Installed(u)
        /\ upl' = [upl EXCEPT ![u].pc = "done", ![u].status = 200]
        /\ buildOrder' = Append(buildOrder, u)
  /\ UNCHANGED qry

(***************************************************************************)
(* POST /flashcards, /summarize, /mcq: lines 97-165, 167-230, 232-314.     *)
(***************************************************************************)
\* A guard that tests for undefined only, and lets null through.
NoPdfUploadedUndefinedOnly(vs) == vs = Undefined

\* Lines 99, 169, 234: if (!vectorStore)
NoPdfUploaded(vs) == ~Truthy(vs)

\* Some upload has been answered 200.
SomeUploadSucceeded == \E u \in UploadIds : upl[u].status = 200

\* Lines 98-126 (169-191, 234-268): the guard, then with no await between
\* them vectorStore.asRetriever() and the start of chain.call.
QueryStart(q, route) ==
  /\ NextQuery(q)
  /\ LET r == [qry[q] EXCEPT !.route = route,
                             !.loadedAtStart = SomeUploadSucceeded,
                             !.storeAtStart = vectorStore]
     IN IF NoPdfUploaded(vectorStore)
          THEN qry' = [qry EXCEPT ![q] = [r EXCEPT !.pc = "done", !.status = 400]]
        ELSE IF GetThrows(vectorStore)
          THEN qry' = [qry EXCEPT ![q] = [r EXCEPT !.pc = "done", !.status = 500]]
        ELSE qry' = [qry EXCEPT ![q] =
                       [r EXCEPT !.pc = "retrieve", !.retriever = vectorStore]]
  /\ UNCHANGED <<vectorStore, upl, buildOrder>>

QueryCaught(q) ==
  /\ qry' = [qry EXCEPT ![q].pc = "done", ![q].status = 500]
  /\ UNCHANGED <<vectorStore, upl, buildOrder>>

\* A chain that looks the store up again when it retrieves.
RetrievedFromSlot(q) == vectorStore

\* The store the chain's retriever searches: the one asRetriever() was
\* called on (lines 124, 189, 266).
RetrievedFrom(q) == qry[q].retriever

\* Inside chain.call: the query embedding settles and the retriever's store
\* is searched; then the generation model is called.
Retrieve(q) ==
  /\ qry[q].pc = "retrieve"
  /\ \/ QueryCaught(q)
     \/ /\ qry' = [qry EXCEPT ![q].pc = "gen", ![q].used = RetrievedFrom(q),
                              ![q].called = TRUE]
        /\ UNCHANGED <<vectorStore, upl, buildOrder>>

\* chain.call settles (lines 126, 191, 268); the parse block and the
\* response run to the end of the handler.
GenDone(q, texts) ==
  /\ qry[q].pc = "gen"
  /\ \/ QueryCaught(q)
     \/ \E text \in texts :
          LET r == ParseBlock(qry[q].route, text) IN
          /\ qry' = [qry EXCEPT ![q].pc = "done", ![q].text = text,
                                ![q].status = IF r.ok THEN 200 ELSE 500,
                                ![q].body = IF r.ok THEN r.val ELSE JsNull]
          /\ UNCHANGED <<vectorStore, upl, buildOrder>>

(***************************************************************************)
(* POST /chat.  No route of src/index.js matches it, so the request falls  *)
(* through the router and Express answers 404.                             *)
(***************************************************************************)
ChatStatus == 404

Chat(q) ==
  /\ NextQuery(q)
  /\ qry' = [qry EXCEPT ![q].pc = "done", ![q].route = "/chat",
                        ![q].status = ChatStatus,
                        ![q].loadedAtStart = SomeUploadSucceeded]
  /\ UNCHANGED <<vectorStore, upl, buildOrder>>

(***************************************************************************)
(* Inputs.                                                                 *)
(***************************************************************************)
RECURSIVE SeqsUpTo(_, _)
\* All sequences over S of length at most n.
SeqsUpTo(S, n) ==
  IF n = 0 THEN {<<>>}
  ELSE LET shorter == SeqsUpTo(S, n - 1)
       IN shorter \cup {Append(s, x) : s \in {t \in shorter : Len(t) = n - 1}, x \in S}

S1(c) == Str(<<c>>)

\* Results of pdf() that are no object holding a string under `text`.
BadDatas ==
  {JsNull, Str(<<"a">>), Obj([numpages |-> Num(1)]),
   Obj([numpages |-> Num(1), text |-> Num(1)]),
   Obj([numpages |-> Num(1), text |-> JsNull])}

TextData(cs) == Obj([numpages |-> Num(1), text |-> Str(cs)])

\* Every extracted text of at most MaxRawLen characters.
AllDatas == BadDatas \cup {TextData(cs) : cs \in SeqsUpTo(Chars, MaxRawLen)}

\* The few results the concurrency specification draws from.
FewDatas == {TextData(<<"a", " ", " ", "a">>)}

GoodCard == Obj([question |-> S1("Q"), answer |-> S1("A")])

\* Any text over brackets, commas, prose and two scalars.
ScanTokens == {LB, RB, Comma, Prose, S1("s"), Num(1)}
ScanTexts == SeqsUpTo(ScanTokens, MaxTextLen)

\* Elements a model may put in its array when asked for flashcards.
CardShapes ==
  {GoodCard,
   Obj([question |-> S1("Q")]),
   Obj([answer |-> S1("A")]),
   Obj([question |-> Str(<<>>), answer |-> S1("A")]),
   Obj([question |-> S1("Q"), answer |-> Str(<<>>)]),
   Obj([question |-> Num(1), answer |-> S1("A")]),
   Obj([question |-> Num(0), answer |-> S1("A")]),
   Obj([question |-> S1("Q"), answer |-> Bool(TRUE)]),
   Obj([question |-> S1("Q"), answer |-> Bool(FALSE)]),
   Obj([question |-> Arr(<<S1("Q")>>), answer |-> S1("A")]),
   Obj([question |-> S1("Q"), answer |-> Obj([text |-> S1("A")])]),
   Obj([question |-> S1("Q"), answer |-> JsNull]),
   S1("Q"), Num(1), JsNull}

ABCD == [A |-> S1("w"), B |-> S1("x"), C |-> S1("y"), D |-> S1("z")]
Mcq(options, answer) ==
  Obj([question |-> S1("Q"), options |-> options, correct_answer |-> answer])

\* Elements a model may put in its array when asked for MCQs.
McqShapes ==
  {Mcq(Obj(ABCD), S1("A")),
   Mcq(Obj(ABCD), S1("D")),
   Mcq(Obj(ABCD), S1("E")),
   Mcq(Obj(ABCD), S1("a")),
   Mcq(Obj(ABCD), Str(<<"A", "B">>)),
   Mcq(Obj(ABCD), Num(1)),
   Mcq(Obj(ABCD), Arr(<<S1("A")>>)),
   Mcq(Obj([A |-> S1("w"), B |-> S1("x"), C |-> S1("y")]), S1("A")),
   Mcq(Obj([B |-> S1("x"), C |-> S1("y"), D |-> S1("z")]), S1("A")),
   Mcq(Obj([A |-> S1("w"), B |-> S1("x"), C |-> S1("y"), E |-> S1("z")]), S1("A")),
   Mcq(Obj([A |-> S1("w"), B |-> S1("x"), C |-> S1("y"), D |-> S1("z"),
            E |-> S1("v")]), S1("A")),
   Mcq(Obj([A |-> Num(1), B |-> JsNull, C |-> Bool(FALSE), D |-> S1("z")]), S1("B")),
   Mcq(Arr(<<S1("w"), S1("x"), S1("y"), S1("z")>>), S1("A")),
   Mcq(Str(<<"w", "x", "y", "z">>), S1("A")),
   Mcq(Num(4), S1("A")),
   Mcq(JsNull, S1("A")),
   Obj([question |-> S1("Q"), options |-> Obj(ABCD)]),
   Obj([options |-> Obj(ABCD), correct_answer |-> S1("A")]),
   Obj([question |-> S1("Q"), correct_answer |-> S1("A")]),
   JsNull}

RECURSIVE Joined(_)
\* The elements separated by commas.
Joined(es) ==
  IF es = <<>> THEN <<>>
  ELSE IF Len(es) = 1 THEN <<es[1]>>
  ELSE <<es[1], Comma>> \o Joined(Tail(es))

\* The elements as a JSON array, alone or with prose around it.
ArrayTexts(shapes) ==
  LET arrays == {<<LB>> \o Joined(es) \o <<RB>> : es \in SeqsUpTo(shapes, MaxElems)}
  IN arrays \cup {<<Prose>> \o a \o <<Prose>> : a \in arrays}

CardTexts == ArrayTexts(CardShapes)
McqTexts == ArrayTexts(McqShapes)

\* Every text the extraction specification draws from.
ExtractTexts == ScanTexts \cup CardTexts \cup McqTexts

\* The few texts the concurrency specification draws from.
FewTexts == {<<Prose, LB, S1("s"), RB>>}

(***************************************************************************)
(* Specifications.                                                         *)
(***************************************************************************)
\* Concurrent uploads and queries.
Next ==
  \/ \E u \in UploadIds : UploadReceive(u, {NoFile, PdfFile})
  \/ \E u \in UploadIds : PdfDone(u, FewDatas)
  \/ \E u \in UploadIds : SplitDone(u)
  \/ \E u \in UploadIds : EmbedDone(u)
  \/ \E q \in QueryIds, route \in Routes : QueryStart(q, route)
  \/ \E q \in QueryIds : Retrieve(q)
  \/ \E q \in QueryIds : GenDone(q, FewTexts)

Spec == Init /\ [][Next]_vars

\* Uploads and requests to /chat.
NextChat ==
  \/ \E u \in UploadIds : UploadReceive(u, {NoFile, PdfFile})
  \/ \E u \in UploadIds : PdfDone(u, FewDatas)
  \/ \E u \in UploadIds : SplitDone(u)
  \/ \E u \in UploadIds : EmbedDone(u)
  \/ \E q \in QueryIds : Chat(q)

SpecChat == Init /\ [][NextChat]_vars

\* Uploads alone, the first over every extracted text.
NextUploads ==
  \/ \E u \in UploadIds : UploadReceive(u, Files)
  \/ PdfDone(1, AllDatas)
  \/ \E u \in UploadIds : u # 1 /\ PdfDone(u, FewDatas)
  \/ \E u \in UploadIds : SplitDone(u)
  \/ \E u \in UploadIds : EmbedDone(u)

SpecUploads == Init /\ [][NextUploads]_vars

\* One upload, then queries over every model text.
NextExtract ==
  \/ UploadReceive(1, {PdfFile})
  \/ PdfDone(1, {TextData(<<"a">>)})
  \/ SplitDone(1)
  \/ EmbedDone(1)
  \/ \E route \in Routes : QueryStart(1, route)
  \/ Retrieve(1)
  \/ GenDone(1, ExtractTexts)

SpecExtract == Init /\ [][NextExtract]_vars

(***************************************************************************)
(* Properties.                                                             *)
(***************************************************************************)
Last(s) == s[Len(s)]
IsDone(r) == r.pc = "done"

\* C1: a request to /flashcards, /summarize or /mcq is answered 400, without
\* a call to the generation model, exactly when no upload had been answered
\* 200 when its handler started; and once an upload has succeeded the slot
\* is never empty, whatever uploads fail.
C1_GuardIffNoUpload ==
  /\ \A q \in QueryIds :
       qry[q].pc # "new" /\ qry[q].route \in Routes =>
         /\ (IsDone(qry[q]) /\ qry[q].status = 400) <=> ~qry[q].loadedAtStart
         /\ qry[q].status = 400 => ~qry[q].called
  /\ SomeUploadSucceeded => vectorStore # JsNull

\* C1 witness: one request was answered 400, a later one 200 from the store
\* of upload 1, and upload 2 has failed in its embedding.
C1_Witness ==
  /\ qry[1].route \in Routes /\ qry[1].status = 400
  /\ qry[2].route \in Routes /\ qry[2].status = 200 /\ qry[2].used.by = 1
  /\ upl[1].status = 200
  /\ upl[2].status = 500 /\ upl[2].error = "embedding error"

\* C2: POST /chat is answered 400 before any successful upload and 200 after
\* one.
C2_ChatContract ==
  \A q \in QueryIds :
    IsDone(qry[q]) /\ qry[q].route = "/chat" =>
      qry[q].status = (IF qry[q].loadedAtStart THEN 200 ELSE 400)

\* One step of the server, for C3: an upload that fails in its pipeline is
\* answered 500 and vectorStore stays as it was; vectorStore changes only in
\* the last step of an upload whose whole pipeline succeeded, which is
\* answered 200 and installs the store built from its documents.
C3_Step ==
  /\ \A u \in UploadIds :
       upl[u].pc \in {"pdf", "split", "embed"} /\ IsDone(upl'[u])
         /\ upl'[u].status # 200
       => upl'[u].status = 500 /\ vectorStore' = vectorStore
  /\ vectorStore' # vectorStore =>
       \E u \in UploadIds :
         /\ upl[u].pc = "embed" /\ upl[u].docs = <<CleanText(Get(upl[u].data, "text").v)>>
         /\ IsDone(upl'[u]) /\ upl'[u].status = 200
         /\ vectorStore' = Store(u, upl[u].docs)
  /\ \A u \in UploadIds :
       upl[u].status # 200 /\ upl'[u].status = 200 => vectorStore' = Store(u, upl[u].docs)

\* C3: every step is such a step: an upload that fails at any stage of its
\* pipeline is answered 500 and leaves the current index as it was, and the
\* index is replaced only by an upload whose whole pipeline succeeded, which
\* is answered 200.
C3_FailedUploadKeepsIndex == [][C3_Step]_vars

\* C3 witness: upload 1 installed its store, upload 2 then went through
\* extraction and chunking and failed in embedding, and the store of
\* upload 1 is still the current one.
C3_Witness ==
  /\ upl[1].status = 200 /\ vectorStore = Store(1, upl[1].docs)
  /\ upl[2].status = 500 /\ upl[2].error = "embedding error"
  /\ buildOrder = <<1>>

InvalidFile(f) ==
  \/ ~f.present
  \/ f.mimetype # "application/pdf"
  \/ f.size > FileSizeLimit

\* C4: an upload with no file, a file that is no PDF or a file over the
\* size limit is answered 400 and installs no store.
C4_InvalidUploadIs400 ==
  \A u \in UploadIds :
    IsDone(upl[u]) /\ InvalidFile(upl[u].file) =>
      /\ upl[u].status = 400
      /\ vectorStore = JsNull \/ vectorStore.by # u

\* No '[' before a ']' in the text: '[' absent, ']' absent, or the first
\* '[' after the last ']'.
NoBracketPair(text) ==
  ~\E i, j \in 1..Len(text) : i < j /\ text[i] = LB /\ text[j] = RB

\* chain.call of request q has settled and the handler has answered.
Answered(q) == IsDone(qry[q]) /\ qry[q].called /\ qry[q].retriever # JsNull

\* C5: on each of the three routes, a model text with no '[' before a ']'
\* is answered 500, never 200 with an array.
C5_NoBracketsFails ==
  \A q \in QueryIds :
    Answered(q) /\ qry[q].route \in Routes /\ NoBracketPair(qry[q].text) =>
      qry[q].status = 500 /\ qry[q].body = JsNull

\* C5 witness: a text whose only ']' stands before its only '[' was
\* answered 500.
C5_Witness ==
  \E q \in QueryIds :
    /\ Answered(q) /\ qry[q].status = 500
    /\ Len(qry[q].text) >= 2
    /\ qry[q].text[1] = RB /\ qry[q].text[2] = LB

\* An MCQ as the data model has it.
WellFormedMcq(e) ==
  /\ e.t = "obj"
  /\ Get(e, "options").t = "obj"
  /\ DOMAIN Get(e, "options").v = OptionKeys
  /\ Get(e, "correct_answer").t = "str"
  /\ Get(e, "correct_answer").v \in AnswerLetters
  /\ Get(e, "correct_answer").v[1] \in DOMAIN Get(e, "options").v

\* The array the text of request q holds between its first '[' and its
\* last ']', if it holds one.
ArrayIn(text) ==
  LET p == JsonParse(JsonString(text))
  IN IF p.ok /\ p.val.t = "arr" THEN p.val.v ELSE <<>>

\* C6: every element of a 200 response of /mcq has exactly the option keys
\* A, B, C, D and a correct_answer among them; an array with an element
\* that has not is answered 500.
C6_McqShape ==
  \A q \in QueryIds :
    IsDone(qry[q]) /\ qry[q].route = "/mcq" =>
      /\ qry[q].status = 200 =>
           /\ qry[q].body = Arr(ArrayIn(qry[q].text))
           /\ \A i \in 1..Len(qry[q].body.v) : WellFormedMcq(qry[q].body.v[i])
      /\ (\E i \in 1..Len(ArrayIn(qry[q].text)) :
            ~WellFormedMcq(ArrayIn(qry[q].text)[i]))
           => qry[q].status = 500

\* C6 witness: /mcq answered 200 with two elements.
C6_Witness ==
  \E q \in QueryIds :
    /\ IsDone(qry[q]) /\ qry[q].route = "/mcq" /\ qry[q].status = 200
    /\ Len(qry[q].body.v) = 2
    /\ qry[q].body.v[1] # qry[q].body.v[2]

\* A flashcard as the data model has it.
WellFormedCard(e) ==
  /\ e.t = "obj"
  /\ Get(e, "question").t = "str" /\ Get(e, "question").v # <<>>
  /\ Get(e, "answer").t = "str" /\ Get(e, "answer").v # <<>>

\* C7: every element of a 200 response of /flashcards holds a non-empty
\* string under question and under answer; an array with any other element
\* is answered 500.
C7_CardShape ==
  \A q \in QueryIds :
    IsDone(qry[q]) /\ qry[q].route = "/flashcards" =>
      /\ qry[q].status = 200 =>
           \A i \in 1..Len(qry[q].body.v) : WellFormedCard(qry[q].body.v[i])
      /\ (\E i \in 1..Len(ArrayIn(qry[q].text)) :
            ~WellFormedCard(ArrayIn(qry[q].text)[i]))
           => qry[q].status = 500

\* The text pdf() extracted, when it is a string.
HasText(r) == r.data.t = "obj" /\ Get(r.data, "text").t = "str"
RawText(r) == Get(r.data, "text").v

\* The handler of upload r has called the chunker.
Chunked(r) ==
  \/ r.pc \in {"split", "embed"}
  \/ r.error \in {"splitter error", "embedding error"}
  \/ r.status = 200

\* C8: the text handed to the chunker is not empty, neither starts nor ends
\* with white space and has no two white-space characters in a row; an
\* upload whose extracted text is empty, all white space or no string is
\* answered 500 without reaching the chunker and installs nothing.
C8_CleanText ==
  \A u \in UploadIds :
    /\ Chunked(upl[u]) =>
         /\ upl[u].clean # <<>>
         /\ ~IsSpace(upl[u].clean[1])
         /\ ~IsSpace(Last(upl[u].clean))
         /\ \A i \in 1..(Len(upl[u].clean) - 1) :
              ~(IsSpace(upl[u].clean[i]) /\ IsSpace(upl[u].clean[i + 1]))
    /\ ( /\ upl[u].data \notin {Undefined, Rejected}
         /\ \/ ~HasText(upl[u])
            \/ \A i \in 1..Len(RawText(upl[u])) : IsSpace(RawText(upl[u])[i]) )
       => /\ IsDone(upl[u]) /\ upl[u].status = 500
          /\ ~Chunked(upl[u]) /\ upl[u].docs = <<>>
          /\ vectorStore = JsNull \/ vectorStore.by # u

\* C8 witness: a text with a run of two white-space characters inside was
\* cleaned to one with a single space there, chunked and installed.
C8_Witness ==
  \E u \in UploadIds :
    /\ upl[u].status = 200 /\ vectorStore.by = u
    /\ HasText(upl[u])
    /\ RawText(upl[u]) = <<"a", "nbsp", "\n", "a">>
    /\ upl[u].clean = <<"a", " ", "a">>

\* C9: a query request retrieves from the store that was current when its
\* handler started, which is not the empty slot, whatever has been installed
\* since.
C9_SnapshotAtStart ==
  \A q \in QueryIds :
    /\ qry[q].pc \in {"retrieve", "gen"} =>
         qry[q].retriever = qry[q].storeAtStart /\ qry[q].retriever # JsNull
    /\ qry[q].called =>
         qry[q].used = qry[q].storeAtStart /\ qry[q].used # JsNull

\* C9 witness: a request retrieved from the store of upload 1 although the
\* store of upload 2 had been installed before its retrieval.
C9_Witness ==
  \E q \in QueryIds :
    /\ qry[q].status = 200 /\ qry[q].used.by = 1
    /\ vectorStore # JsNull /\ vectorStore.by = 2
    /\ upl[1].status = 200 /\ upl[2].status = 200

\* C10: the current store is the one whose build resolved last, and when
\* all uploads have succeeded each has been answered 200 for its own file.
C10_LastBuildWins ==
  /\ buildOrder # <<>> =>
       vectorStore = Store(Last(buildOrder), upl[Last(buildOrder)].docs)
  /\ \A i \in 1..Len(buildOrder) : upl[buildOrder[i]].status = 200
  /\ (\A u \in UploadIds : upl[u].status = 200) =>
       /\ Len(buildOrder) = NumUploads
       /\ vectorStore.by = Last(buildOrder)

\* C10 witness: all uploads succeeded, upload 1 arrived first and its build
\* resolved last, and its store is the current one.
C10_Witness ==
  /\ \A u \in UploadIds : upl[u].status = 200
  /\ Len(buildOrder) = NumUploads
  /\ Last(buildOrder) = 1 /\ buildOrder[1] # 1
  /\ vectorStore.by = 1

=============================================================================
